---- MODULE Spec2Model ----
(***************************************************************************)
(* The desktop shell's entry point, src/desktop/src-tauri/src/main.rs.     *)
(*                                                                         *)
(*   #![cfg_attr(not(debug_assertions), windows_subsystem = "windows")]    *)
(*   fn main() {                                                           *)
(*       tauri::Builder::default()                                         *)
(*           .plugin(UpdaterBuilder::new().build())                        *)
(*           .run(tauri::generate_context!())                              *)
(*           .expect("error while running tauri application");             *)
(*   }                                                                     *)
(*                                                                         *)
(* main is one expression; Rust evaluates a method chain receiver first,   *)
(* then each call's arguments, then the call.  Each evaluation step is one *)
(* action, in that order.  The host framework (tauri) is the environment:  *)
(* its run either fails to start and returns Err(e), or enters its run     *)
(* loop, handles events, and may later return Ok(()).                      *)
(***************************************************************************)
EXTENDS Naturals, Sequences, FiniteSets

VARIABLES
    buildMode,         \* the cargo profile the binary was compiled with
    windowsSubsystem,  \* the crate attribute line 1 leaves in the binary
    pc,                \* main's position
    builder,           \* the tauri::Builder value
    updater,           \* the tauri_plugin_updater value (builder, then plugin)
    context,           \* the value of tauri::generate_context!()
    calls,             \* the collaborator calls made so far, in order
    handoffs,          \* what each run call received
    runResult,         \* the Result<(), Error> that run returned
    loopEvents,        \* events the host run loop has handled
    stderr,            \* lines written to standard error
    exitStatus         \* <<>> while the process lives, <<code>> once it ended

vars == <<buildMode, windowsSubsystem, pc, builder, updater, context, calls,
          handoffs, runResult, loopEvents, stderr, exitStatus>>

\* What main owns; the run loop's own progress (loopEvents) and the process'
\* end (pc, exitStatus) are not part of it.
bootstrapVars == <<builder, updater, context, calls, handoffs, stderr>>

----------------------------------------------------------------------------
\* Bounds and inputs

\* Events the host run loop handles before the model stops counting them.
MaxEvents == 15

BuildModes == {"debug", "release"}

\* Descriptions of the errors the host's run can return.
Errors == {"disk full", "missing generated context", "window creation failed"}

ExpectMsg == "error while running tauri application"

PanicExitStatus == 101

SuccessExitStatus == 0

----------------------------------------------------------------------------
\* Values

\* debug_assertions is on in the debug profile and off in the release profile.
DebugAssertions(mode) == mode = "debug"

\* #![cfg_attr(not(debug_assertions), windows_subsystem = "windows")]:
\* without the attribute the binary keeps the default console subsystem.
CfgAttrInverted(mode) == IF DebugAssertions(mode) THEN "windows" ELSE "console"

CfgAttr(mode) == IF ~DebugAssertions(mode) THEN "windows" ELSE "console"

NoBuilder == [state |-> "none", plugins |-> <<>>]

NoUpdater == [state |-> "none", options |-> {}]

NoResult == [state |-> "none", err |-> ""]

Ok == [state |-> "ok", err |-> ""]

Err(e) == [state |-> "err", err |-> e]

\* The order of the collaborator calls in main's expression.
CallOrder ==
    <<"default", "updater_new", "updater_build", "plugin", "generate_context", "run">>

\* {:?} of the error: the description wrapped in the type's name.
DebugFmt(e) == <<"Error(", e, ")">>

\* Result::expect on Err(e) panics with "{msg}: {e:?}".
PanicMessageNoError(msg, e) == <<msg>>

PanicMessage(msg, e) == <<msg, ": ">> \o DebugFmt(e)

Contains(line, s) == \E i \in 1..Len(line) : line[i] = s

IsPrefix(s, t) == Len(s) <= Len(t) /\ \A i \in 1..Len(s) : s[i] = t[i]

Count(s, x) == Cardinality({i \in 1..Len(s) : s[i] = x})

----------------------------------------------------------------------------
\* The state after the binary is built and the process has started.
Init ==
    /\ buildMode \in BuildModes
    /\ windowsSubsystem = CfgAttr(buildMode)
    /\ pc = "default"
    /\ builder = NoBuilder
    /\ updater = NoUpdater
    /\ context = "none"
    /\ calls = <<>>
    /\ handoffs = <<>>
    /\ runResult = NoResult
    /\ loopEvents = 0
    /\ stderr = <<>>
    /\ exitStatus = <<>>

\* tauri::Builder::default()
DefaultSkipsPlugin ==
    /\ pc = "default"
    /\ builder' = [state |-> "live", plugins |-> <<>>]
    /\ calls' = Append(calls, "default")
    /\ pc' = "generate_context"
    /\ UNCHANGED <<buildMode, windowsSubsystem, updater, context, handoffs,
                   runResult, loopEvents, stderr, exitStatus>>

Default ==
    /\ pc = "default"
    /\ builder' = [state |-> "live", plugins |-> <<>>]
    /\ calls' = Append(calls, "default")
    /\ pc' = "updater_new"
    /\ UNCHANGED <<buildMode, windowsSubsystem, updater, context, handoffs,
                   runResult, loopEvents, stderr, exitStatus>>

\* UpdaterBuilder::new(): nothing is customized
UpdaterNewCustomized ==
    /\ pc = "updater_new"
    /\ updater' = [state |-> "builder", options |-> {"endpoints"}]
    /\ calls' = Append(calls, "updater_new")
    /\ pc' = "updater_build"
    /\ UNCHANGED <<buildMode, windowsSubsystem, builder, context, handoffs,
                   runResult, loopEvents, stderr, exitStatus>>

UpdaterNew ==
    /\ pc = "updater_new"
    /\ updater' = [state |-> "builder", options |-> {}]
    /\ calls' = Append(calls, "updater_new")
    /\ pc' = "updater_build"
    /\ UNCHANGED <<buildMode, windowsSubsystem, builder, context, handoffs,
                   runResult, loopEvents, stderr, exitStatus>>

\* .build(): the updater builder becomes the plugin
UpdaterBuild ==
    /\ pc = "updater_build"
    /\ updater.state = "builder"
    /\ updater' = [updater EXCEPT !.state = "plugin"]
    /\ calls' = Append(calls, "updater_build")
    /\ pc' = "plugin"
    /\ UNCHANGED <<buildMode, windowsSubsystem, builder, context, handoffs,
                   runResult, loopEvents, stderr, exitStatus>>

\* .plugin(..): the plugin moves into the builder
PluginTwice ==
    /\ pc = "plugin"
    /\ builder.state = "live"
    /\ updater.state = "plugin"
    /\ builder' = [builder EXCEPT !.plugins =
                      @ \o << [name |-> "updater", options |-> updater.options],
                              [name |-> "updater", options |-> updater.options] >>]
    /\ updater' = [updater EXCEPT !.state = "moved"]
    /\ calls' = calls \o <<"plugin", "plugin">>
    /\ pc' = "generate_context"
    /\ UNCHANGED <<buildMode, windowsSubsystem, context, handoffs, runResult,
                   loopEvents, stderr, exitStatus>>

PluginDebugOnly ==
    /\ pc = "plugin"
    /\ builder.state = "live"
    /\ updater.state = "plugin"
    /\ IF DebugAssertions(buildMode)
       THEN /\ builder' = [builder EXCEPT !.plugins =
                              Append(@, [name |-> "updater", options |-> updater.options])]
            /\ calls' = Append(calls, "plugin")
       ELSE UNCHANGED <<builder, calls>>
    /\ updater' = [updater EXCEPT !.state = "moved"]
    /\ pc' = "generate_context"
    /\ UNCHANGED <<buildMode, windowsSubsystem, context, handoffs, runResult,
                   loopEvents, stderr, exitStatus>>

Plugin ==
    /\ pc = "plugin"
    /\ builder.state = "live"
    /\ updater.state = "plugin"
    /\ builder' = [builder EXCEPT !.plugins =
                      Append(@, [name |-> "updater", options |-> updater.options])]
    /\ updater' = [updater EXCEPT !.state = "moved"]
    /\ calls' = Append(calls, "plugin")
    /\ pc' = "generate_context"
    /\ UNCHANGED <<buildMode, windowsSubsystem, context, handoffs, runResult,
                   loopEvents, stderr, exitStatus>>

\* tauri::generate_context!()
GenerateContext ==
    /\ pc = "generate_context"
    /\ context' = "generated"
    /\ calls' = Append(calls, "generate_context")
    /\ pc' = "run"
    /\ UNCHANGED <<buildMode, windowsSubsystem, builder, updater, handoffs,
                   runResult, loopEvents, stderr, exitStatus>>

\* .run(..) is called: the builder and the context move into the host, which
\* either fails to start and returns Err(e), or enters its run loop.
RunStartKeepsBuilder ==
    /\ pc = "run"
    /\ builder.state = "live"
    /\ handoffs' = Append(handoffs, [config |-> builder.plugins, context |-> context])
    /\ calls' = Append(calls, "run")
    /\ \/ \E e \in Errors : runResult' = Err(e) /\ pc' = "expect"
       \/ pc' = "in_run" /\ UNCHANGED runResult
    /\ UNCHANGED <<buildMode, windowsSubsystem, builder, updater, context,
                   loopEvents, stderr, exitStatus>>

RunStart ==
    /\ pc = "run"
    /\ builder.state = "live"
    /\ handoffs' = Append(handoffs, [config |-> builder.plugins, context |-> context])
    /\ builder' = [builder EXCEPT !.state = "consumed"]
    /\ context' = "moved"
    /\ calls' = Append(calls, "run")
    /\ \/ \E e \in Errors : runResult' = Err(e) /\ pc' = "expect"
       \/ pc' = "in_run" /\ UNCHANGED runResult
    /\ UNCHANGED <<buildMode, windowsSubsystem, updater, loopEvents, stderr,
                   exitStatus>>

\* The host run loop handles one event; main is blocked inside run.
RunLoopEvent ==
    /\ pc = "in_run"
    /\ loopEvents < MaxEvents
    /\ loopEvents' = loopEvents + 1
    /\ UNCHANGED <<buildMode, windowsSubsystem, pc, builder, updater, context,
                   calls, handoffs, runResult, stderr, exitStatus>>

\* The host run loop ends and run returns Ok(()).
RunLoopExit ==
    /\ pc = "in_run"
    /\ runResult' = Ok
    /\ pc' = "expect"
    /\ UNCHANGED <<buildMode, windowsSubsystem, builder, updater, context,
                   calls, handoffs, loopEvents, stderr, exitStatus>>

\* .expect("error while running tauri application"), then the end of main
ExpectRetries ==
    /\ pc = "expect"
    /\ IF runResult.state = "ok"
       THEN /\ pc' = "returned"
            /\ exitStatus' = <<SuccessExitStatus>>
            /\ UNCHANGED <<stderr, runResult>>
       ELSE /\ pc' = "default"
            /\ runResult' = NoResult
            /\ UNCHANGED <<stderr, exitStatus>>
    /\ UNCHANGED <<buildMode, windowsSubsystem, builder, updater, context,
                   calls, handoffs, loopEvents>>

ExpectIgnoresErr ==
    /\ pc = "expect"
    /\ pc' = "returned"
    /\ exitStatus' = <<SuccessExitStatus>>
    /\ UNCHANGED <<buildMode, windowsSubsystem, builder, updater, context,
                   calls, handoffs, runResult, loopEvents, stderr>>

ExpectReportsAlways ==
    /\ pc = "expect"
    /\ IF runResult.state = "ok"
       THEN /\ pc' = "returned"
            /\ stderr' = Append(stderr, <<"application exited">>)
            /\ exitStatus' = <<SuccessExitStatus>>
       ELSE /\ pc' = "panicked"
            /\ stderr' = Append(stderr, PanicMessage(ExpectMsg, runResult.err))
            /\ exitStatus' = <<PanicExitStatus>>
    /\ UNCHANGED <<buildMode, windowsSubsystem, builder, updater, context,
                   calls, handoffs, runResult, loopEvents>>

Expect ==
    /\ pc = "expect"
    /\ IF runResult.state = "ok"
       THEN /\ pc' = "returned"
            /\ exitStatus' = <<SuccessExitStatus>>
            /\ UNCHANGED stderr
       ELSE /\ pc' = "panicked"
            /\ stderr' = Append(stderr, PanicMessage(ExpectMsg, runResult.err))
            /\ exitStatus' = <<PanicExitStatus>>
    /\ UNCHANGED <<buildMode, windowsSubsystem, builder, updater, context,
                   calls, handoffs, runResult, loopEvents>>

\* The steps main itself takes; the run loop's progress is the host's.
MainStep ==
    \/ Default
    \/ UpdaterNew
    \/ UpdaterBuild
    \/ Plugin
    \/ GenerateContext
    \/ RunStart
    \/ Expect

Next ==
    \/ MainStep
    \/ RunLoopEvent
    \/ RunLoopExit

Spec == Init /\ [][Next]_vars

\* main is synchronous straight-line code: a step that can be taken is taken.
\* Nothing obliges the host run loop to handle another event or to end.
FairSpec == Spec /\ WF_vars(MainStep)

----------------------------------------------------------------------------
\* The spec's lifecycle, read off the program's state: Crashed once the
\* expect has panicked, Running once run has entered its loop, else Starting.
Lifecycle ==
    IF pc = "panicked" THEN "Crashed"
    ELSE IF pc = "in_run" \/ runResult.state = "ok" THEN "Running"
    ELSE "Starting"

TypeOK ==
    /\ buildMode \in BuildModes
    /\ windowsSubsystem \in {"windows", "console"}
    /\ pc \in {"default", "updater_new", "updater_build", "plugin",
               "generate_context", "run", "in_run", "expect", "returned", "panicked"}
    /\ builder.state \in {"none", "live", "consumed"}
    /\ updater.state \in {"none", "builder", "plugin", "moved"}
    /\ context \in {"none", "generated", "moved"}
    /\ runResult.state \in {"none", "ok", "err"}
    /\ loopEvents \in 0..MaxEvents
    /\ Len(exitStatus) <= 1

----------------------------------------------------------------------------
\* Properties

RunCalled == Contains(calls, "run")

DefaultUpdaterPlugin == [name |-> "updater", options |-> {}]

\* C1: in both build modes, every run call in the call log has a plugin call
\* before it and no plugin call after it: the update capability is attached
\* strictly before the host run loop is started and never afterwards.
C1_AttachBeforeRun ==
    \A m \in BuildModes :
        buildMode = m =>
            \A i \in 1..Len(calls) :
                calls[i] = "run" =>
                    /\ \E j \in 1..(i - 1) : calls[j] = "plugin"
                    /\ \A j \in (i + 1)..Len(calls) : calls[j] # "plugin"

C1_Witness ==
    /\ RunCalled
    /\ pc = "in_run"
    /\ loopEvents = 1
    /\ buildMode = "release"

\* C2: once run has returned an error, the run loop was never entered
\* (Running is not reached), the only step left is the expect, and when it
\* has been taken the process has ended (Crashed) with a non-zero status and
\* a standard-error line that contains the error's description.
C2_StartFailureCrashes ==
    runResult.state = "err" =>
        /\ Lifecycle # "Running"
        /\ loopEvents = 0
        /\ pc \in {"expect", "panicked"}
        /\ pc = "expect" => ENABLED Expect
        /\ pc = "panicked" =>
              /\ Lifecycle = "Crashed"
              /\ Len(exitStatus) = 1
              /\ exitStatus[1] # SuccessExitStatus
              /\ \E k \in 1..Len(stderr) : Contains(stderr[k], runResult.err)

C2_Witness ==
    /\ pc = "panicked"
    /\ runResult = Err("disk full")
    /\ \E k \in 1..Len(stderr) : Contains(stderr[k], "disk full")

\* C3: in every reachable state the builder holds at most one update
\* capability, at most one plugin call has been made, no plugin call follows
\* a run call, and no configuration handed to run holds more than one.
C3_AtMostOneAttachment ==
    /\ Len(builder.plugins) <= 1
    /\ Count(calls, "plugin") <= 1
    /\ \A i \in 1..Len(calls) : \A j \in 1..Len(calls) :
           (calls[i] = "run" /\ calls[j] = "plugin") => j < i
    /\ \A h \in 1..Len(handoffs) : Len(handoffs[h].config) <= 1

C3_Witness ==
    /\ Len(builder.plugins) = 1
    /\ Count(calls, "plugin") = 1
    /\ pc = "panicked"

\* C4: once run has returned Ok, no step changes anything main owns: no
\* collaborator call is made, the builder, the updater plugin and the context
\* are not touched, nothing is handed to run again, nothing is written to
\* standard error, and the lifecycle stays Running.  (The one step left is the
\* expect handing back () and main returning, which ends the process.)
C4_NoActionAfterSuccess ==
    [][runResult.state = "ok" =>
          /\ UNCHANGED bootstrapVars
          /\ UNCHANGED runResult
          /\ Lifecycle' = Lifecycle]_vars

C4_Witness ==
    /\ runResult.state = "ok"
    /\ pc = "returned"
    /\ stderr = <<>>
    /\ loopEvents = 2

\* C5: the collaborator calls made so far are always a prefix of the order in
\* main's expression, so each is made at most once and in that order, and a
\* run that returned an error is never followed by another call.
C5_CallsOnceInOrder ==
    /\ IsPrefix(calls, CallOrder)
    /\ \A c \in {"default", "plugin", "run"} : Count(calls, c) <= 1
    /\ runResult.state = "err" => calls = CallOrder /\ Len(handoffs) = 1

C5_Witness ==
    /\ runResult.state = "err"
    /\ pc = "panicked"
    /\ calls = CallOrder

\* C6: every execution leaves Starting; Running is entered only without a
\* start error and Crashed only with one; once in Running or Crashed the
\* lifecycle never changes, so neither is left and there is no step between
\* them.
C6_LifecycleLinear ==
    /\ <>(Lifecycle \in {"Running", "Crashed"})
    /\ [](Lifecycle = "Running" => runResult.state # "err")
    /\ [](Lifecycle = "Crashed" => runResult.state = "err")
    /\ [][Lifecycle # "Starting" => Lifecycle' = Lifecycle]_vars
    /\ [][Lifecycle = "Starting" => Lifecycle' \in {"Starting", "Running", "Crashed"}]_vars

C6_Witness ==
    /\ Lifecycle = "Crashed"
    /\ runResult.state = "err"
    /\ exitStatus = <<PanicExitStatus>>

\* C7: the binary has the windows subsystem (no console window) exactly when
\* it was built in release mode, from the first state on, and neither the
\* subsystem nor the build mode changes while the process runs.
C7_ConsoleFlagIffRelease ==
    /\ []((windowsSubsystem = "windows") <=> (buildMode = "release"))
    /\ []((windowsSubsystem = "console") <=> (buildMode = "debug"))
    /\ [][windowsSubsystem' = windowsSubsystem /\ buildMode' = buildMode]_vars

C7_Witness ==
    /\ buildMode = "release"
    /\ windowsSubsystem = "windows"
    /\ pc = "returned"

\* C8: run receives the builder at most once; as soon as run has been called
\* exactly one hand-off exists, it carries the generated context, the builder
\* is consumed, and run is the last collaborator call made, whatever run's
\* result; before the run call nothing was handed off.
C8_BuilderConsumedOnce ==
    /\ Len(handoffs) <= 1
    /\ RunCalled =>
          /\ Len(handoffs) = 1
          /\ handoffs[1].context = "generated"
          /\ handoffs[1].config = builder.plugins
          /\ builder.state = "consumed"
          /\ calls[Len(calls)] = "run"
          /\ Count(calls, "run") = 1
    /\ ~RunCalled => handoffs = <<>> /\ builder.state # "consumed"

C8_Witness ==
    /\ builder.state = "consumed"
    /\ Len(handoffs) = 1
    /\ pc = "expect"
    /\ runResult.state = "err"

\* C9: every configuration handed to run holds exactly one capability, the
\* updater plugin with no option set, and exactly one plugin call was made.
C9_UpdaterAlwaysAttachedDefault ==
    /\ \A h \in 1..Len(handoffs) : handoffs[h].config = <<DefaultUpdaterPlugin>>
    /\ RunCalled => Count(calls, "plugin") = 1 /\ Len(handoffs) = 1

C9_Witness ==
    /\ Len(handoffs) = 1
    /\ handoffs[1].config = <<DefaultUpdaterPlugin>>
    /\ pc = "expect"
    /\ runResult.state = "ok"

\* The number of collaborator calls main has made when it is at position p,
\* whatever the build mode.
CallsMadeAt(p) ==
    CASE p = "default" -> 0
      [] p = "updater_new" -> 1
      [] p = "updater_build" -> 2
      [] p = "plugin" -> 3
      [] p = "generate_context" -> 4
      [] p = "run" -> 5
      [] OTHER -> 6

\* C10: in either build mode the calls made are the same function of main's
\* position, and the way the process ends is the same function of run's
\* result: two runs that differ in build mode only and get the same result
\* from run make the same calls and end the same way.
C10_BuildModeIrrelevant ==
    \A m \in BuildModes :
        buildMode = m =>
            /\ calls = SubSeq(CallOrder, 1, CallsMadeAt(pc))
            /\ pc = "returned" =>
                  runResult = Ok /\ exitStatus = <<SuccessExitStatus>>
            /\ pc = "panicked" =>
                  runResult.state = "err" /\ exitStatus = <<PanicExitStatus>>
            /\ runResult.state = "err" => pc \in {"expect", "panicked"}
            /\ runResult.state = "ok" => pc \in {"expect", "returned"}

C10_Witness ==
    /\ buildMode = "debug"
    /\ windowsSubsystem = "console"
    /\ pc = "panicked"
    /\ calls = CallOrder

====
